---- MODULE Spec2Model ----
(***************************************************************************)
(* Multi-sortable client table: the criteria store of sort-panel.tsx, the  *)
(* evaluator applyMultiSort of lib/sort-utils.ts and the state kept by the *)
(* page component of app/page.tsx.                                         *)
(***************************************************************************)
EXTENDS Integers, Sequences, FiniteSets, TLC

VARIABLES
    clients,        \* page.tsx: const [clients] = useState(...)
    sortCriteria,   \* page.tsx: const [sortCriteria, setSortCriteria] = useState([])
    selectedField,  \* sort-panel.tsx: const [selectedField, setSelectedField] = useState("")
    sortedClients,  \* page.tsx: the memoized applyMultiSort(clients, sortCriteria)
    storage,        \* localStorage: what is kept under LOCAL_STORAGE_KEY
    pending,        \* the state update queued by an effect, applied by the next render
    left,           \* the criteria sequence the page held when it was reloaded
    loaded,         \* the text localStorage held when the page was loaded
    last            \* the handler that ran last and the branch of its code it took

vars == <<clients, sortCriteria, selectedField, sortedClients, storage, pending, left, loaded, last>>

----------------------------------------------------------------------------
(* Bounds of the model.                                                    *)

\* how many distinct values Date.now() takes while the panel is in use
MaxNow == 1
\* the longest record collection given to the evaluator
MaxClients == 3
\* the longest criteria sequence given to the evaluator on its own
MaxSortKeys == 2
\* the longest list found in localStorage when the page is first loaded
MaxStored == 2

----------------------------------------------------------------------------
(* lib/data.ts                                                             *)

clientFields ==
    << [id |-> "name",      label |-> "Name",       type |-> "string"],
       [id |-> "email",     label |-> "Email",      type |-> "string"],
       [id |-> "createdAt", label |-> "Created At", type |-> "date"],
       [id |-> "updatedAt", label |-> "Updated At", type |-> "date"],
       [id |-> "status",    label |-> "Status",     type |-> "string"] >>

ClientFieldId == {clientFields[i].id : i \in 1..Len(clientFields)}

\* the fields the select box is seen to deliver: two text fields and a date
FieldsInPlay == {"name", "email", "createdAt"}

\* a Date field that holds null/undefined
Absent == <<>>

\* a Date object, by its epoch milliseconds, and Date.prototype.getTime
Date(ms) == <<ms>>
getTime(d) == d[1]

\* the Date values of the model: one before the epoch, one after
Dates == {Date(0 - 1), Date(1)}

\* the strings of the model in the order String.prototype.localeCompare gives
\* them: case is a lower-level difference than the letter, so "amy" < "Bob"
\* although "B" (66) is below "a" (97) in code units
Collation == <<"a@x.io", "active", "amy", "Bob">>

Names == {"amy", "Bob"}

\* the records of the model: name and createdAt vary, the other fields are
\* equal in every record
Client(i, n, c) ==
    [id |-> i, name |-> n, email |-> "a@x.io", createdAt |-> c,
     updatedAt |-> Date(1), status |-> "active"]

ClientSeqs(len) ==
    {[i \in 1..len |-> Client(i, f[i][1], f[i][2])] :
        f \in [1..len -> Names \X (Dates \cup {Absent})]}

----------------------------------------------------------------------------
(* lib/sort-utils.ts                                                       *)

SortDirection == {"asc", "desc"}

\* an id made of the time alone
MakeIdTimeOnly(now, field) == <<"sort", now, "">>

\* `sort-${Date.now()}-${selectedField}`: the text is fixed but for the number
\* and the field name, and no field name holds a digit or "-", so two ids are
\* equal exactly when both parts are
MakeId(now, field) == <<"sort", now, field>>

SortCriterion(i, f, d) == [id |-> i, field |-> f, direction |-> d]

\* String.prototype.localeCompare on the strings of the model
LocaleRank(s) == CHOOSE k \in 1..Len(Collation) : Collation[k] = s
localeCompare(a, b) == LocaleRank(a) - LocaleRank(b)

\* lines 48-55: the two values a criterion compares
FieldValue(a, field) ==
    IF field = "createdAt" \/ field = "updatedAt"
    THEN IF a[field] # Absent THEN getTime(a[field]) ELSE 0
    ELSE a[field]

\* lines 57-71: strings by localeCompare, numbers by subtraction.  Every
\* non-date field of a Client is a string and every date value is a number,
\* so the fallback of lines 66-71 is taken only for a field no record has:
\* both values are undefined, neither < nor > holds, comparison stays 0
Comparison(a, b, field) ==
    IF field \notin DOMAIN a THEN 0
    ELSE IF field = "createdAt" \/ field = "updatedAt"
    THEN FieldValue(a, field) - FieldValue(b, field)
    ELSE localeCompare(FieldValue(a, field), FieldValue(b, field))

\* the comparator with the direction applied to no criterion but the first
RECURSIVE CompareFromFirstDirection(_, _, _, _)
CompareFromFirstDirection(a, b, criteria, k) ==
    IF k > Len(criteria) THEN 0
    ELSE LET comparison == Comparison(a, b, criteria[k].field)
         IN  IF comparison # 0
             THEN IF criteria[1].direction = "asc" THEN comparison ELSE 0 - comparison
             ELSE CompareFromFirstDirection(a, b, criteria, k + 1)

\* lines 38-81: the comparator given to sort, from criterion k on
RECURSIVE CompareFrom(_, _, _, _)
CompareFrom(a, b, criteria, k) ==
    IF k > Len(criteria) THEN 0
    ELSE LET comparison == Comparison(a, b, criteria[k].field)
         IN  IF comparison # 0
             THEN IF criteria[k].direction = "asc" THEN comparison ELSE 0 - comparison
             ELSE CompareFrom(a, b, criteria, k + 1)

\* a comparator that takes every criterion as ascending
ComparatorIgnoreDirection(a, b, criteria) ==
    CompareFrom(a, b, [k \in 1..Len(criteria) |->
                          SortCriterion(criteria[k].id, criteria[k].field, "asc")], 1)

Comparator(a, b, criteria) == CompareFrom(a, b, criteria, 1)

\* an insertion that puts x before the elements it ties with
RECURSIVE InsertAtBeforeTies(_, _, _, _)
InsertAtBeforeTies(arr, x, criteria, j) ==
    IF j = 0 \/ Comparator(arr[j], x, criteria) < 0
    THEN SubSeq(arr, 1, j) \o <<x>> \o SubSeq(arr, j + 1, Len(arr))
    ELSE InsertAtBeforeTies(arr, x, criteria, j - 1)

\* Array.prototype.sort is stable (ECMAScript 2019), and for short arrays it
\* is an insertion sort: x goes right after the last element, scanning from
\* the right, that the comparator does not put after x
RECURSIVE InsertAt(_, _, _, _)
InsertAt(arr, x, criteria, j) ==
    IF j = 0 \/ Comparator(arr[j], x, criteria) <= 0
    THEN SubSeq(arr, 1, j) \o <<x>> \o SubSeq(arr, j + 1, Len(arr))
    ELSE InsertAt(arr, x, criteria, j - 1)

\* a sort that keeps one record of each run of ties
RECURSIVE ArraySortDropTies(_, _, _)
ArraySortDropTies(arr, criteria, n) ==
    IF n = 0 THEN <<>>
    ELSE LET head == ArraySortDropTies(arr, criteria, n - 1)
         IN  IF \E j \in 1..Len(head) : Comparator(head[j], arr[n], criteria) = 0
             THEN head
             ELSE InsertAt(head, arr[n], criteria, Len(head))

RECURSIVE ArraySort(_, _, _)
ArraySort(arr, criteria, n) ==
    IF n = 0 THEN <<>>
    ELSE LET head == ArraySort(arr, criteria, n - 1)
         IN  InsertAt(head, arr[n], criteria, Len(head))

\* an evaluator that falls back to sorting by name when given no criteria
applyMultiSortDefaultKey(cs, criteria) ==
    IF Len(criteria) = 0
    THEN ArraySort(cs, <<SortCriterion(MakeId(0, "name"), "name", "asc")>>, Len(cs))
    ELSE ArraySort(cs, criteria, Len(cs))

\* lines 30-82
applyMultiSort(cs, criteria) ==
    IF Len(criteria) = 0 THEN cs
    ELSE ArraySort(cs, criteria, Len(cs))

\* a sort of the array it is given: clients.sort(...) without the copy
ArraysAfterSortInPlace(cs, criteria) ==
    [input |-> applyMultiSort(cs, criteria), returned |-> applyMultiSort(cs, criteria)]

\* lines 33-38: the two arrays after the call.  [...clients] is a new array,
\* sort orders that array in place and the comparator writes nothing: the
\* array given holds what it held, the array returned holds the sorted records
ArraysAfterSort(cs, criteria) ==
    [input |-> cs, returned |-> applyMultiSort(cs, criteria)]

----------------------------------------------------------------------------
(* localStorage and JSON, as app/page.tsx uses them                        *)

\* localStorage.getItem gives null: nothing is kept under the key
NoItem == [t |-> "none"]
\* the kept text is the empty string
EmptyText == [t |-> "empty"]
\* a kept text that JSON.parse rejects with a SyntaxError
Garbage == [t |-> "garbage"]
\* a kept text that is the JSON text of the document doc
JsonText(doc) == [t |-> "json", doc |-> doc]

\* JSON documents: null, the empty string, a string that is not empty, an
\* array, an object with its members in order, each member a pair of a key
\* and a document
JNull == [j |-> "null"]
JEmptyStr == [j |-> "emptystring"]
JStr(s) == [j |-> "string", s |-> s]
JArr(items) == [j |-> "array", items |-> items]
JObj(members) == [j |-> "object", members |-> members]

\* c[key] of a parsed object: the value of the member, undefined if none
HasMember(c, key) == \E m \in 1..Len(c.members) : c.members[m][1] = key
Member(c, key) ==
    c.members[CHOOSE m \in 1..Len(c.members) : c.members[m][1] = key][2]

\* the value is truthy: undefined, null and the empty string are not
Truthy(c, key) ==
    /\ HasMember(c, key)
    /\ Member(c, key).j = "string"

\* a save that keeps the id and the field of each criterion only
JSONstringifyNoDirection(criteria) ==
    JsonText(JArr([i \in 1..Len(criteria) |->
        JObj(<< <<"id", JStr(criteria[i].id)>>,
                <<"field", JStr(criteria[i].field)>> >>)]))

\* JSON.stringify(sortCriteria): an array of objects, each with the own
\* properties of the criterion in the order they were created in
JSONstringify(criteria) ==
    JsonText(JArr([i \in 1..Len(criteria) |->
        JObj(<< <<"id", JStr(criteria[i].id)>>,
                <<"field", JStr(criteria[i].field)>>,
                <<"direction", JStr(criteria[i].direction)>> >>)]))

\* JSON.parse throws on the text
ParseThrows(text) == text.t # "json"

\* JSON.parse(text) of a text it accepts
JSONparse(text) == text.doc

\* a restore that keeps the id and the field and takes every direction as
\* ascending
AsCriteriaAscending(doc) ==
    [i \in 1..Len(doc.items) |->
        SortCriterion(Member(doc.items[i], "id").s,
                      Member(doc.items[i], "field").s, "asc")]

\* the array of objects JSON.parse gave, as the SortCriterion[] it is used as
AsCriteria(doc) ==
    [i \in 1..Len(doc.items) |->
        SortCriterion(Member(doc.items[i], "id").s,
                      Member(doc.items[i], "field").s,
                      Member(doc.items[i], "direction").s)]

----------------------------------------------------------------------------
(* app/page.tsx and components/sort-panel.tsx: the criteria store          *)

\* the values Date.now() takes
Times == 1..MaxNow

\* the ids the drag library and the item buttons hand to the handlers: those
\* of criteria in the sequence and of criteria that are not (any more) in it
Ids == {MakeId(t, f) : t \in Times, f \in FieldsInPlay}

\* event.over of a drag that ended over no item
NoOver == <<>>

\* the records the page holds
PageClients ==
    << Client(1, "Bob", Date(0 - 1)),
       Client(2, "amy", Date(0 - 1)),
       Client(3, "amy", Date(1)) >>

\* no state update is queued
NoUpdate == <<>>
\* the page was not reloaded
NotLeft == <<>>

\* a memo that does not depend on the criteria: the view is not computed anew
setSortCriteriaStaleView(newCriteria) ==
    /\ sortCriteria' = newCriteria
    /\ sortedClients' = sortedClients
    /\ storage' = JSONstringify(newCriteria)
    /\ UNCHANGED <<pending, left, loaded>>

\* page.tsx lines 22, 56-61, 68-70, 83: setSortCriteria from a handler, the
\* render it causes, in which useMemo computes the sorted view from the new
\* criteria, and the save effect that runs after that render
setSortCriteria(newCriteria) ==
    /\ sortCriteria' = newCriteria
    /\ sortedClients' = applyMultiSort(clients, newCriteria)
    /\ storage' = JSONstringify(newCriteria)
    /\ UNCHANGED <<pending, left, loaded>>

\* a test that looks at the first criterion only
someFieldFirstOnly(criteria, field) ==
    Len(criteria) > 0 /\ criteria[1].field = field

\* sortCriteria.some((c) => c.field === field)
someField(criteria, field) ==
    \E i \in 1..Len(criteria) : criteria[i].field = field

\* a filter that leaves out the field of the last criterion only
availableFieldsLastOnly(criteria) ==
    SelectSeq(clientFields,
              LAMBDA field : ~(Len(criteria) > 0 /\ criteria[Len(criteria)].field = field.id))

\* sort-panel.tsx line 203: the descriptors the select box offers
availableFields(criteria) ==
    SelectSeq(clientFields, LAMBDA field : ~someField(criteria, field.id))

\* sortCriteria.findIndex((c) => c.id === id): 0-based, -1 when there is none
findIndex(criteria, id) ==
    IF \E i \in 1..Len(criteria) : criteria[i].id = id
    THEN (CHOOSE i \in 1..Len(criteria) :
            /\ criteria[i].id = id
            /\ \A j \in 1..(i - 1) : criteria[j].id # id) - 1
    ELSE 0 - 1

\* a filter with the test the wrong way round
RECURSIVE filterOnlyId(_, _)
filterOnlyId(criteria, id) ==
    IF Len(criteria) = 0 THEN <<>>
    ELSE IF Head(criteria).id = id
         THEN <<Head(criteria)>> \o filterOnlyId(Tail(criteria), id)
         ELSE filterOnlyId(Tail(criteria), id)

\* sortCriteria.filter((c) => c.id !== id)
RECURSIVE filterNotId(_, _)
filterNotId(criteria, id) ==
    IF Len(criteria) = 0 THEN <<>>
    ELSE IF Head(criteria).id # id
         THEN <<Head(criteria)>> \o filterNotId(Tail(criteria), id)
         ELSE filterNotId(Tail(criteria), id)

\* a map that gives the flipped criterion an id of its own
mapToggleResetId(criteria, id) ==
    [i \in 1..Len(criteria) |->
        IF criteria[i].id = id
        THEN SortCriterion(MakeId(0, criteria[i].field), criteria[i].field,
                           IF criteria[i].direction = "asc" THEN "desc" ELSE "asc")
        ELSE criteria[i]]

\* a map that flips every criterion
mapToggleAll(criteria, id) ==
    [i \in 1..Len(criteria) |->
        [criteria[i] EXCEPT !.direction = IF @ = "asc" THEN "desc" ELSE "asc"]]

\* sortCriteria.map((c) => (c.id === id ? { ...c, direction: flipped } : c))
mapToggle(criteria, id) ==
    [i \in 1..Len(criteria) |->
        IF criteria[i].id = id
        THEN [criteria[i] EXCEPT !.direction = IF @ = "asc" THEN "desc" ELSE "asc"]
        ELSE criteria[i]]

\* a move whose second splice deletes the item at the target
arrayMoveOverwrite(criteria, oldIndex, newIndex) ==
    LET movedItem == criteria[oldIndex + 1]
        removed == SubSeq(criteria, 1, oldIndex)
                      \o SubSeq(criteria, oldIndex + 2, Len(criteria))
        start == IF newIndex > Len(removed) THEN Len(removed) ELSE newIndex
    IN  SubSeq(removed, 1, start) \o <<movedItem>>
            \o SubSeq(removed, start + 2, Len(removed))

\* a move that exchanges the two items
arrayMoveSwap(criteria, oldIndex, newIndex) ==
    [i \in 1..Len(criteria) |->
        IF i = oldIndex + 1 THEN criteria[newIndex + 1]
        ELSE IF i = newIndex + 1 THEN criteria[oldIndex + 1]
        ELSE criteria[i]]

\* sort-panel.tsx lines 149-153: the copy, splice(oldIndex, 1), then
\* splice(newIndex, 0, movedItem); the indexes are 0-based
arrayMove(criteria, oldIndex, newIndex) ==
    LET movedItem == criteria[oldIndex + 1]
        removed == SubSeq(criteria, 1, oldIndex)
                      \o SubSeq(criteria, oldIndex + 2, Len(criteria))
        start == IF newIndex > Len(removed) THEN Len(removed) ELSE newIndex
    IN  SubSeq(removed, 1, start) \o <<movedItem>>
            \o SubSeq(removed, start + 1, Len(removed))

Init ==
    /\ clients = PageClients
    /\ sortCriteria = <<>>
    /\ selectedField = ""
    /\ sortedClients = applyMultiSort(PageClients, <<>>)
    /\ storage = JSONstringify(<<>>)
    /\ pending = NoUpdate
    /\ left = NotLeft
    /\ loaded = NoItem
    /\ last = [op |-> "init", tag |-> ""]

\* sort-panel.tsx line 210: onValueChange of the select box
onValueChange(value) ==
    /\ selectedField' = value
    /\ last' = [op |-> "select", tag |-> ""]
    /\ UNCHANGED <<clients, sortCriteria, sortedClients, storage, pending, left, loaded>>

\* an add that does not look for the field in the sequence
handleAddFieldNoCheck(now) ==
    IF selectedField # ""
    THEN /\ setSortCriteria(Append(sortCriteria,
                SortCriterion(MakeId(now, selectedField), selectedField, "asc")))
         /\ selectedField' = ""
         /\ last' = [op |-> "add", tag |-> "appended"]
         /\ UNCHANGED clients
    ELSE /\ last' = [op |-> "add", tag |-> "noselection"]
         /\ UNCHANGED <<clients, sortCriteria, selectedField, sortedClients,
                        storage, pending, left, loaded>>

\* sort-panel.tsx lines 165-176
handleAddField(now) ==
    IF selectedField # "" /\ ~someField(sortCriteria, selectedField)
    THEN /\ setSortCriteria(Append(sortCriteria,
                SortCriterion(MakeId(now, selectedField), selectedField, "asc")))
         /\ selectedField' = ""
         /\ last' = [op |-> "add", tag |-> "appended"]
         /\ UNCHANGED clients
    ELSE /\ last' = [op |-> "add",
                     tag |-> IF selectedField = "" THEN "noselection" ELSE "duplicate"]
         /\ UNCHANGED <<clients, sortCriteria, selectedField, sortedClients,
                        storage, pending, left, loaded>>

\* sort-panel.tsx lines 182-187
handleRemoveCriterion(id) ==
    /\ setSortCriteria(filterNotId(sortCriteria, id))
    /\ last' = [op |-> "remove",
                tag |-> IF findIndex(sortCriteria, id) # 0 - 1 THEN "hit" ELSE "miss"]
    /\ UNCHANGED <<clients, selectedField>>

\* sort-panel.tsx lines 193-200
handleToggleDirection(id) ==
    /\ setSortCriteria(mapToggle(sortCriteria, id))
    /\ last' = [op |-> "toggle",
                tag |-> IF findIndex(sortCriteria, id) # 0 - 1 THEN "hit" ELSE "miss"]
    /\ UNCHANGED <<clients, selectedField>>

\* a drag that takes a drop outside the list as a drop on the last criterion
handleDragEndDropOutside(active, over) ==
    LET oldIndex == findIndex(sortCriteria, active)
        found == findIndex(sortCriteria, over)
        newIndex == IF found = 0 - 1 THEN Len(sortCriteria) - 1 ELSE found
    IN  IF active # over /\ oldIndex # 0 - 1
        THEN /\ setSortCriteria(arrayMove(sortCriteria, oldIndex, newIndex))
             /\ last' = [op |-> "drag",
                         tag |-> IF found = 0 - 1 THEN "notfound"
                                 ELSE IF oldIndex - newIndex \in {0 - 1, 1}
                                 THEN "adjacent" ELSE "far"]
             /\ UNCHANGED <<clients, selectedField>>
        ELSE /\ last' = [op |-> "drag",
                         tag |-> IF active = over THEN "same" ELSE "notfound"]
             /\ UNCHANGED <<clients, sortCriteria, selectedField, sortedClients,
                            storage, pending, left, loaded>>

\* sort-panel.tsx lines 139-159; over is NoOver or the id of the item under
\* the dragged one
handleDragEnd(active, over) ==
    LET oldIndex == findIndex(sortCriteria, active)
        newIndex == findIndex(sortCriteria, over)
    IN  IF active # over /\ oldIndex # 0 - 1 /\ newIndex # 0 - 1
        THEN /\ setSortCriteria(arrayMove(sortCriteria, oldIndex, newIndex))
             /\ last' = [op |-> "drag",
                         tag |-> IF oldIndex - newIndex \in {0 - 1, 1}
                                 THEN "adjacent" ELSE "far"]
             /\ UNCHANGED <<clients, selectedField>>
        ELSE /\ last' = [op |-> "drag",
                         tag |-> IF active = over THEN "same" ELSE "notfound"]
             /\ UNCHANGED <<clients, sortCriteria, selectedField, sortedClients,
                            storage, pending, left, loaded>>

Next ==
    \/ \E value \in FieldsInPlay : onValueChange(value)
    \/ \E now \in Times : handleAddField(now)
    \/ \E id \in Ids : handleRemoveCriterion(id)
    \/ \E id \in Ids : handleToggleDirection(id)
    \/ \E active \in Ids : \E over \in Ids \cup {NoOver} : handleDragEnd(active, over)

Spec == Init /\ [][Next]_vars

----------------------------------------------------------------------------
(* Properties of the criteria store                                        *)

HasId(criteria, id) == \E i \in 1..Len(criteria) : criteria[i].id = id

HasField(criteria, field) == \E i \in 1..Len(criteria) : criteria[i].field = field

PositionOf(criteria, id) == CHOOSE i \in 1..Len(criteria) : criteria[i].id = id

\* the k-th smallest member of a set of indexes
NthOf(S, k) == CHOOSE i \in S : Cardinality({j \in S : j <= i}) = k

\* C5: no two criteria of the sequence are for the same field, in every state
\* the add, remove, toggle and reorder handlers reach from the empty sequence
C5_UniqueFields ==
    \A i, j \in 1..Len(sortCriteria) :
        i # j => sortCriteria[i].field # sortCriteria[j].field

\* every field in play is in the sequence, and an add of one of them was tried
C5_Witness ==
    /\ Len(sortCriteria) = Cardinality(FieldsInPlay)
    /\ last = [op |-> "add", tag |-> "duplicate"]

\* C6: an add of a field that has a criterion in the sequence leaves the
\* sequence as it is, with one criterion for the field
C6_AddPresentField ==
    [][last'.op = "add" => \A now \in Times :
        (/\ HasField(sortCriteria, selectedField)
         /\ handleAddField(now)) =>
            /\ sortCriteria' = sortCriteria
            /\ Cardinality({i \in 1..Len(sortCriteria') :
                               sortCriteria'[i].field = selectedField}) = 1]_vars

\* the field was added once, then selected and added again
C6_Witness ==
    /\ last = [op |-> "add", tag |-> "duplicate"]
    /\ Len(sortCriteria) = 1
    /\ sortCriteria[1].field = selectedField

\* C7: an add of a field that has no criterion in the sequence appends one
\* criterion, for that field, ascending, with an id no criterion of the
\* sequence has; the criteria that were there stay as and where they were
C7_AddNewField ==
    [][last'.op = "add" => \A now \in Times :
        (/\ selectedField # ""
         /\ ~HasField(sortCriteria, selectedField)
         /\ handleAddField(now)) =>
            LET n == Len(sortCriteria)
            IN  /\ Len(sortCriteria') = n + 1
                /\ sortCriteria'[n + 1].field = selectedField
                /\ sortCriteria'[n + 1].direction = "asc"
                /\ ~HasId(sortCriteria, sortCriteria'[n + 1].id)
                /\ \A i \in 1..n : sortCriteria'[i] = sortCriteria[i]]_vars

\* a criterion was appended to a sequence that held one already
C7_Witness ==
    /\ last = [op |-> "add", tag |-> "appended"]
    /\ Len(sortCriteria) >= 2
    /\ selectedField = ""

\* C8: remove leaves the criteria whose id is not the given one, unchanged
\* and in their order; if none has the id the sequence is as it was; and a
\* second remove of the same id changes nothing
C8_Remove ==
    [][last'.op = "remove" => \A id \in Ids :
        handleRemoveCriterion(id) =>
            LET kept == {i \in 1..Len(sortCriteria) : sortCriteria[i].id # id}
            IN  /\ Len(sortCriteria') = Cardinality(kept)
                /\ \A k \in 1..Len(sortCriteria') :
                      sortCriteria'[k] = sortCriteria[NthOf(kept, k)]
                /\ ~HasId(sortCriteria, id) => sortCriteria' = sortCriteria
                /\ filterNotId(sortCriteria', id) = sortCriteria']_vars

\* a criterion was removed and others are left
C8_Witness ==
    /\ last = [op |-> "remove", tag |-> "hit"]
    /\ Len(sortCriteria) >= 2

\* C9: toggle flips the direction of the criterion with the given id and
\* leaves its id and field, every other criterion, the length and the order
\* as they were; if no criterion has the id the sequence is as it was
C9_Toggle ==
    [][last'.op = "toggle" => \A id \in Ids :
        handleToggleDirection(id) =>
            /\ Len(sortCriteria') = Len(sortCriteria)
            /\ \A i \in 1..Len(sortCriteria) :
                  /\ sortCriteria'[i].id = sortCriteria[i].id
                  /\ sortCriteria'[i].field = sortCriteria[i].field
                  /\ sortCriteria'[i].direction \in SortDirection
                  /\ (sortCriteria'[i].direction # sortCriteria[i].direction)
                        <=> (sortCriteria[i].id = id)
            /\ ~HasId(sortCriteria, id) => sortCriteria' = sortCriteria]_vars

\* one criterion of several was toggled, and one is descending
C9_Witness ==
    /\ last = [op |-> "toggle", tag |-> "hit"]
    /\ Len(sortCriteria) >= 2
    /\ \E i \in 1..Len(sortCriteria) : sortCriteria[i].direction = "desc"
    /\ \E i \in 1..Len(sortCriteria) : sortCriteria[i].direction = "asc"

\* C10: a drag of criterion A dropped on another criterion B puts A at the
\* index B had, moves the criteria in between by one place towards the index
\* A had, leaves the others where they were, and keeps the criteria other than
\* A in their relative order
C10_Reorder ==
    [][last'.op = "drag" =>
       \A active, over \in {sortCriteria[i].id : i \in 1..Len(sortCriteria)} :
        (active # over /\ handleDragEnd(active, over)) =>
            LET p == PositionOf(sortCriteria, active)
                q == PositionOf(sortCriteria, over)
                others == {sortCriteria[i].id : i \in 1..Len(sortCriteria)} \ {active}
            IN  /\ Len(sortCriteria') = Len(sortCriteria)
                /\ sortCriteria'[q] = sortCriteria[p]
                /\ \A i \in 1..Len(sortCriteria) \ {q} :
                      sortCriteria'[i] =
                          IF p < q /\ p <= i /\ i < q THEN sortCriteria[i + 1]
                          ELSE IF q < p /\ q < i /\ i <= p THEN sortCriteria[i - 1]
                          ELSE sortCriteria[i]
                /\ \A a, b \in others :
                      (PositionOf(sortCriteria', a) < PositionOf(sortCriteria', b))
                        <=> (PositionOf(sortCriteria, a) < PositionOf(sortCriteria, b))]_vars

\* a criterion was dropped on one that was not its neighbour
C10_Witness ==
    /\ last = [op |-> "drag", tag |-> "far"]
    /\ Len(sortCriteria) >= 3

\* how often a criterion occurs in a sequence
Occurrences(criteria, c) == Cardinality({i \in 1..Len(criteria) : criteria[i] = c})

\* C11: a reorder leaves the multiset of criteria as it was: the same length
\* and every criterion (id, field, direction) as often as before
C11_ReorderKeepsMultiset ==
    [][last'.op = "drag" =>
        /\ Len(sortCriteria') = Len(sortCriteria)
        /\ \A c \in {sortCriteria[i] : i \in 1..Len(sortCriteria)}
                  \cup {sortCriteria'[i] : i \in 1..Len(sortCriteria')} :
              Occurrences(sortCriteria', c) = Occurrences(sortCriteria, c)]_vars

\* the last of all the criteria was dropped on its neighbour, one of them
\* descending
C11_Witness ==
    /\ last = [op |-> "drag", tag |-> "adjacent"]
    /\ Len(sortCriteria) = Cardinality(FieldsInPlay)
    /\ \E i \in 1..Len(sortCriteria) : sortCriteria[i].direction = "desc"

\* C20: a drag changes nothing when the dragged id is not in the sequence,
\* when there is no drop target or the target is not in the sequence, or when
\* the target is the dragged criterion itself
C20_ReorderNoOp ==
    [][last'.op = "drag" =>
       \A active \in Ids : \A over \in Ids \cup {NoOver} :
        (/\ \/ ~HasId(sortCriteria, active)
            \/ over = NoOver
            \/ ~HasId(sortCriteria, over)
            \/ over = active
         /\ handleDragEnd(active, over)) =>
            /\ sortCriteria' = sortCriteria
            /\ sortedClients' = sortedClients
            /\ storage' = storage]_vars

\* a drag over a list of several criteria that found no criterion to drop on
C20_Witness ==
    /\ last = [op |-> "drag", tag |-> "notfound"]
    /\ Len(sortCriteria) >= 2

\* the id the criterion on a field has in a sequence
IdOfField(criteria, field) ==
    {criteria[i].id : i \in {k \in 1..Len(criteria) : criteria[k].field = field}}

\* C23: from the empty sequence the handlers reach only sequences whose ids
\* are pairwise distinct, so that a removal takes at most one criterion away
\* and a toggle changes at most one; a toggle leaves every id where it was
\* and a reorder leaves every criterion the id it had
C23_DistinctStableIds ==
    [][/\ \A i, j \in 1..Len(sortCriteria') :
             i # j => sortCriteria'[i].id # sortCriteria'[j].id
       /\ last'.op = "remove" => Len(sortCriteria') >= Len(sortCriteria) - 1
       /\ last'.op = "toggle" =>
             /\ Len(sortCriteria') = Len(sortCriteria)
             /\ Cardinality({i \in 1..Len(sortCriteria) :
                                sortCriteria'[i] # sortCriteria[i]}) <= 1
             /\ \A i \in 1..Len(sortCriteria) : sortCriteria'[i].id = sortCriteria[i].id
       /\ last'.op = "drag" =>
             \A f \in ClientFieldId :
                 IdOfField(sortCriteria', f) = IdOfField(sortCriteria, f)]_vars

\* a toggle has flipped the middle one of three criteria
C23_Witness ==
    /\ last = [op |-> "toggle", tag |-> "hit"]
    /\ Len(sortCriteria) = 3
    /\ sortCriteria[1].direction = "asc"
    /\ sortCriteria[2].direction = "desc"
    /\ sortCriteria[3].direction = "asc"

\* where the descriptor of a field stands in the descriptor table
DeclaredAt(field) == CHOOSE i \in 1..Len(clientFields) : clientFields[i].id = field

UsedFields == {sortCriteria[i].field : i \in 1..Len(sortCriteria)}

\* C18: the fields offered for adding are the descriptors of the fields no
\* criterion uses, each once and in the order of the descriptor table: no
\* offered field is used, and the offered and the used fields together are
\* all the fields of the table
C18_AvailableFields ==
    LET offered == availableFields(sortCriteria)
        offeredIds == {offered[i].id : i \in 1..Len(offered)}
    IN  /\ \A i, j \in 1..Len(offered) :
              i < j => DeclaredAt(offered[i].id) < DeclaredAt(offered[j].id)
        /\ \A i \in 1..Len(offered) : offered[i] = clientFields[DeclaredAt(offered[i].id)]
        /\ offeredIds \cap UsedFields = {}
        /\ offeredIds \cup UsedFields = ClientFieldId

\* two fields are used, in an order that is not the table's, and more than
\* one field is still offered
C18_Witness ==
    /\ Len(sortCriteria) = 2
    /\ DeclaredAt(sortCriteria[1].field) > DeclaredAt(sortCriteria[2].field)
    /\ Len(availableFields(sortCriteria)) = Len(clientFields) - 2

----------------------------------------------------------------------------
(* app/page.tsx: the page is loaded, its effects run, the queued update is *)
(* rendered                                                                *)
(* Each effect runs once for the render that schedules it, as in the       *)
(* production build; the second run of mount effects that React's Strict   *)
(* Mode adds in a development build is not part of this model              *)

\* parsedCriteria.every((c) => c.id && c.field && c.direction), from item k
\* on: "throws" when c is null (c.id is a TypeError), "false" at the first
\* item with a falsy property, "true" when no item is left
RECURSIVE everyFrom(_, _)
everyFrom(items, k) ==
    IF k > Len(items) THEN "true"
    ELSE IF items[k].j = "null" THEN "throws"
    ELSE IF Truthy(items[k], "id") /\ Truthy(items[k], "field")
              /\ Truthy(items[k], "direction")
         THEN everyFrom(items, k + 1)
         ELSE "false"

\* a load effect whose try has no catch: the TypeError of a null item leaves
\* the effect before the stored text is removed
loadEffectNoCatch ==
    /\ last.op = "rendered"
    /\ IF storage = NoItem \/ storage = EmptyText
       THEN /\ last' = [op |-> "load", tag |-> "nothing"]
            /\ UNCHANGED <<storage, pending>>
       ELSE IF ParseThrows(storage)
       THEN /\ last' = [op |-> "load", tag |-> "thrown"]
            /\ UNCHANGED <<storage, pending>>
       ELSE LET parsedCriteria == JSONparse(storage)
                valid == IF parsedCriteria.j = "array"
                         THEN everyFrom(parsedCriteria.items, 1)
                         ELSE "false"
            IN  IF valid = "true"
                THEN /\ pending' = <<AsCriteria(parsedCriteria)>>
                     /\ last' = [op |-> "load", tag |-> "accepted"]
                     /\ UNCHANGED storage
                ELSE IF valid = "throws"
                THEN /\ last' = [op |-> "load", tag |-> "thrown"]
                     /\ UNCHANGED <<storage, pending>>
                ELSE /\ storage' = NoItem
                     /\ last' = [op |-> "load", tag |-> "invalid"]
                     /\ UNCHANGED pending
    /\ UNCHANGED <<clients, sortCriteria, selectedField, sortedClients, left, loaded>>

\* page.tsx lines 28-50: the load effect of the first render.  The state
\* update of line 38 is queued, the render that applies it comes after the
\* effects of this render
loadEffect ==
    /\ last.op = "rendered"
    /\ IF storage = NoItem \/ storage = EmptyText
       THEN /\ last' = [op |-> "load", tag |-> "nothing"]
            /\ UNCHANGED <<storage, pending>>
       ELSE IF ParseThrows(storage)
       THEN /\ storage' = NoItem
            /\ last' = [op |-> "load", tag |-> "error"]
            /\ UNCHANGED pending
       ELSE LET parsedCriteria == JSONparse(storage)
                valid == IF parsedCriteria.j = "array"
                         THEN everyFrom(parsedCriteria.items, 1)
                         ELSE "false"
            IN  IF valid = "true"
                THEN /\ pending' = <<AsCriteria(parsedCriteria)>>
                     /\ last' = [op |-> "load", tag |-> "accepted"]
                     /\ UNCHANGED storage
                ELSE /\ storage' = NoItem
                     /\ last' = [op |-> "load",
                                 tag |-> IF valid = "throws" THEN "error" ELSE "invalid"]
                     /\ UNCHANGED pending
    /\ UNCHANGED <<clients, sortCriteria, selectedField, sortedClients, left, loaded>>

\* page.tsx lines 56-61: the save effect, after the load effect of the first
\* render and after the render of the queued update
saveEffect ==
    /\ last.op \in {"load", "rerender"}
    /\ storage' = JSONstringify(sortCriteria)
    /\ last' = [op |-> "save", tag |-> last.op]
    /\ UNCHANGED <<clients, sortCriteria, selectedField, sortedClients,
                   pending, left, loaded>>

\* page.tsx lines 22, 68-70: the render that applies the queued update
renderUpdate ==
    /\ last.op = "save"
    /\ pending # NoUpdate
    /\ sortCriteria' = pending[1]
    /\ sortedClients' = applyMultiSort(clients, pending[1])
    /\ pending' = NoUpdate
    /\ last' = [op |-> "rerender", tag |-> ""]
    /\ UNCHANGED <<clients, selectedField, storage, left, loaded>>

\* the effects have run and no update is queued
Mounted == last.op = "save" /\ pending = NoUpdate

\* what a first visit may find in localStorage: nothing, texts that are no
\* JSON, JSON that is no list, and lists of up to MaxStored items, each null
\* or an object with an id (empty or one of two), a field (two of the table,
\* one not of the table, or empty) and a direction (a direction, another word,
\* or none)
StoredItems ==
    {JNull} \cup
    {JObj(<< <<"id", i>>, <<"field", f>> >> \o d) :
        i \in {JEmptyStr, JStr(MakeId(1, "name")), JStr(MakeId(1, "email"))},
        f \in {JStr("name"), JStr("email"), JStr("bogus"), JEmptyStr},
        d \in { << <<"direction", JStr("desc")>> >>,
                << <<"direction", JStr("sideways")>> >>,
                <<>> }}

StoredValues ==
    {NoItem, EmptyText, Garbage, JsonText(JNull), JsonText(JStr("asc")),
     JsonText(JObj(<<>>))}
    \cup {JsonText(JArr(items)) :
            items \in UNION {[1..n -> StoredItems] : n \in 0..MaxStored}}

MountInit ==
    /\ clients = PageClients
    /\ sortCriteria = <<>>
    /\ selectedField = ""
    /\ sortedClients = applyMultiSort(PageClients, <<>>)
    /\ storage \in StoredValues
    /\ pending = NoUpdate
    /\ left = NotLeft
    /\ loaded = storage
    /\ last = [op |-> "rendered", tag |-> ""]

MountNext == loadEffect \/ saveEffect \/ renderUpdate

MountSpec == MountInit /\ [][MountNext]_vars

\* the page is reloaded: the component state is made anew, localStorage stays
Reload ==
    /\ left = NotLeft
    /\ left' = <<sortCriteria>>
    /\ loaded' = storage
    /\ sortCriteria' = <<>>
    /\ selectedField' = ""
    /\ sortedClients' = applyMultiSort(clients, <<>>)
    /\ pending' = NoUpdate
    /\ last' = [op |-> "rendered", tag |-> ""]
    /\ UNCHANGED <<clients, storage>>

\* the panel is used, then the page is reloaded once
RoundTripNext ==
    \/ left = NotLeft /\ Next
    \/ Reload
    \/ loadEffect
    \/ saveEffect
    \/ renderUpdate

RoundTripSpec == Init /\ [][RoundTripNext]_vars

----------------------------------------------------------------------------
(* components/sort-panel.tsx, app/page.tsx: handlers of one render          *)

\* page.tsx line 83, sort-panel.tsx lines 155, 172, 185, 197: a handler hands
\* the new sequence to setSortCriteria as a value.  The update is queued; of
\* the values queued before a render the last one is the state of that render.
\* A queued setSelectedField, if any, stays queued behind it
setSortCriteriaQueued(newCriteria) ==
    /\ pending' = <<newCriteria>> \o SubSeq(pending, 2, Len(pending))
    /\ UNCHANGED <<clients, sortCriteria, sortedClients, storage, left, loaded>>

\* sort-panel.tsx lines 165-176, from the closure of the last render:
\* sortCriteria and selectedField are the values of that render
handleAddFieldQueued(now) ==
    IF selectedField # "" /\ ~someField(sortCriteria, selectedField)
    THEN /\ pending' = <<Append(sortCriteria,
                SortCriterion(MakeId(now, selectedField), selectedField, "asc")), "">>
         /\ last' = [op |-> "add", tag |-> "appended"]
         /\ UNCHANGED <<clients, sortCriteria, selectedField, sortedClients,
                        storage, left, loaded>>
    ELSE /\ last' = [op |-> "add",
                     tag |-> IF selectedField = "" THEN "noselection" ELSE "duplicate"]
         /\ UNCHANGED <<clients, sortCriteria, selectedField, sortedClients,
                        storage, pending, left, loaded>>

\* sort-panel.tsx lines 182-187, from the closure of the last render
handleRemoveCriterionQueued(id) ==
    /\ setSortCriteriaQueued(filterNotId(sortCriteria, id))
    /\ last' = [op |-> "remove",
                tag |-> IF findIndex(sortCriteria, id) # 0 - 1 THEN "hit" ELSE "miss"]
    /\ UNCHANGED selectedField

\* sort-panel.tsx lines 193-200, from the closure of the last render
handleToggleDirectionQueued(id) ==
    /\ setSortCriteriaQueued(mapToggle(sortCriteria, id))
    /\ last' = [op |-> "toggle",
                tag |-> IF findIndex(sortCriteria, id) # 0 - 1 THEN "hit" ELSE "miss"]
    /\ UNCHANGED selectedField

\* sort-panel.tsx lines 139-159, from the closure of the last render
handleDragEndQueued(active, over) ==
    LET oldIndex == findIndex(sortCriteria, active)
        newIndex == findIndex(sortCriteria, over)
    IN  IF active # over /\ oldIndex # 0 - 1 /\ newIndex # 0 - 1
        THEN /\ setSortCriteriaQueued(arrayMove(sortCriteria, oldIndex, newIndex))
             /\ last' = [op |-> "drag",
                         tag |-> IF oldIndex - newIndex \in {0 - 1, 1}
                                 THEN "adjacent" ELSE "far"]
             /\ UNCHANGED selectedField
        ELSE /\ last' = [op |-> "drag",
                         tag |-> IF active = over THEN "same" ELSE "notfound"]
             /\ UNCHANGED <<clients, sortCriteria, selectedField, sortedClients,
                            storage, pending, left, loaded>>

\* page.tsx lines 22, 56-61, 68-70, sort-panel.tsx line 132: the render of the
\* queued updates, with the sorted view and the save effect that follow it
renderQueued ==
    /\ pending # NoUpdate
    /\ sortCriteria' = pending[1]
    /\ selectedField' = IF Len(pending) = 2 THEN pending[2] ELSE selectedField
    /\ sortedClients' = applyMultiSort(clients, pending[1])
    /\ storage' = JSONstringify(pending[1])
    /\ pending' = NoUpdate
    /\ last' = [op |-> "render", tag |-> ""]
    /\ UNCHANGED <<clients, left, loaded>>

\* the sequences the store holds after a render: criteria on fields in play,
\* no field twice, each with the id its add gave it
RenderedCriteria ==
    {criteria \in UNION {[1..n -> {SortCriterion(MakeId(1, f), f, d) :
                                     f \in FieldsInPlay, d \in SortDirection}] :
                            n \in 0..Cardinality(FieldsInPlay)} :
        \A i, j \in 1..Len(criteria) : i # j => criteria[i].field # criteria[j].field}

PanelInit ==
    /\ clients = PageClients
    /\ sortCriteria \in RenderedCriteria
    /\ selectedField \in FieldsInPlay \cup {""}
    /\ sortedClients = applyMultiSort(clients, sortCriteria)
    /\ storage = JSONstringify(sortCriteria)
    /\ pending = NoUpdate
    /\ left = NotLeft
    /\ loaded = NoItem
    /\ last = [op |-> "render", tag |-> ""]

PanelNext ==
    \/ \E now \in Times : handleAddFieldQueued(now)
    \/ \E id \in Ids : handleRemoveCriterionQueued(id)
    \/ \E id \in Ids : handleToggleDirectionQueued(id)
    \/ \E active \in Ids : \E over \in Ids \cup {NoOver} : handleDragEndQueued(active, over)
    \/ renderQueued

PanelSpec == PanelInit /\ [][PanelNext]_vars

\* after is before with the direction of the criterion with the id flipped
ReflectsToggle(before, after, id) ==
    /\ Len(after) = Len(before)
    /\ \A i \in 1..Len(before) :
          /\ after[i].id = before[i].id
          /\ after[i].field = before[i].field
          /\ (after[i].direction = before[i].direction) <=> (before[i].id # id)

\* after is before without the criterion with the id
ReflectsRemove(before, after, id) ==
    after = SelectSeq(before, LAMBDA c : c.id # id)

\* the ids of the criteria the panel shows, whose buttons can be pressed
ShownIds == {sortCriteria[i].id : i \in 1..Len(sortCriteria)}

\* C24: no mutation is lost: when a toggle or a removal of a shown criterion
\* is handled after another action whose result has not been rendered yet, it
\* is applied to the sequence that action produced, so the sequence handed on
\* reflects both actions
C24_NoLostMutation ==
    [][pending # NoUpdate =>
        /\ last'.op = "toggle" =>
              \A id \in ShownIds : handleToggleDirectionQueued(id) =>
                  ReflectsToggle(pending[1], pending'[1], id)
        /\ last'.op = "remove" =>
              \A id \in ShownIds : handleRemoveCriterionQueued(id) =>
                  ReflectsRemove(pending[1], pending'[1], id)]_vars

\* the stored text is a list of criteria: every item an object with a
\* non-empty id, a field of the descriptor table and a direction
WellFormed(text) ==
    /\ text.t = "json"
    /\ text.doc.j = "array"
    /\ \A k \in 1..Len(text.doc.items) :
          LET c == text.doc.items[k]
          IN  /\ c.j = "object"
              /\ Truthy(c, "id")
              /\ Truthy(c, "field") /\ Member(c, "field").s \in ClientFieldId
              /\ Truthy(c, "direction") /\ Member(c, "direction").s \in SortDirection

\* C12: when the loaded value is not a list, or an item of it has an empty
\* id, a field that is not in the descriptor table or a direction that is
\* neither ascending nor descending, the criteria sequence is empty once the
\* page is mounted
C12_InvalidStoredDiscarded ==
    (Mounted /\ ~WellFormed(loaded)) => sortCriteria = <<>>

\* C13: a criteria sequence built by the handlers from the empty one, saved
\* and loaded again by a reload of the page, is the sequence it was
C13_RoundTrip ==
    (Mounted /\ left # NotLeft) => sortCriteria = left[1]

\* the page was reloaded with several criteria, one descending, and is mounted
C13_Witness ==
    /\ Mounted
    /\ left # NotLeft
    /\ Len(left[1]) >= 2
    /\ \E i \in 1..Len(left[1]) : left[1][i].direction = "desc"
    /\ last.tag = "rerender"

\* C19: after every change of the criteria sequence (an add, a removal, a
\* toggle, a reorder, the restore from localStorage) the sorted view is the
\* evaluator's output for the records and the criteria sequence of that moment
C19_ViewFollowsCriteria ==
    sortedClients = applyMultiSort(clients, sortCriteria)

\* the page was reloaded and has restored two criteria, under which the view
\* is not in the order of the records
C19_Witness ==
    /\ last = [op |-> "save", tag |-> "rerender"]
    /\ left # NotLeft
    /\ Len(sortCriteria) = 2
    /\ sortedClients # clients

\* the criteria sequence a well-formed text is the serialization of
Denoted(text) ==
    [k \in 1..Len(text.doc.items) |->
        [id |-> Member(text.doc.items[k], "id").s,
         field |-> Member(text.doc.items[k], "field").s,
         direction |-> Member(text.doc.items[k], "direction").s]]

\* C21: when localStorage holds the serialization of a valid criteria
\* sequence S as the page is mounted, then once the load and save effects
\* have run and no update is queued the criteria sequence is S and
\* localStorage holds the serialization of S again: the save of the initial
\* empty sequence has not lost it
C21_RestoreOnMount ==
    (Mounted /\ WellFormed(loaded)) =>
        /\ sortCriteria = Denoted(loaded)
        /\ storage = JSONstringify(Denoted(loaded))
        /\ storage = loaded

\* the page is mounted with two stored criteria on two fields, after the
\* save effect has run for the initial empty sequence and for the restored one
C21_Witness ==
    /\ Mounted
    /\ last.tag = "rerender"
    /\ WellFormed(loaded)
    /\ Len(sortCriteria) = 2
    /\ sortCriteria[1].field # sortCriteria[2].field
    /\ sortCriteria[1].id # sortCriteria[2].id

\* the stored text cannot be parsed, or is the text of something that is not
\* a list, or of a list with an item that is null or that lacks an id, a
\* field or a direction
Malformed(text) ==
    /\ text # NoItem
    /\ \/ text.t # "json"
       \/ text.doc.j # "array"
       \/ \E k \in 1..Len(text.doc.items) :
             \/ text.doc.items[k].j # "object"
             \/ ~Truthy(text.doc.items[k], "id")
             \/ ~Truthy(text.doc.items[k], "field")
             \/ ~Truthy(text.doc.items[k], "direction")

\* C22: when the stored text cannot be parsed or is not the text of a list of
\* criteria (a list with a null item included), the load effect ends without
\* an error leaving it: no update is queued, the criteria sequence stays
\* empty and the view is the records as they are, the stored text is removed,
\* and once the page is mounted localStorage holds the empty list
C22_MalformedStoredRecovered ==
    (last.op \in {"load", "save", "rerender"} /\ Malformed(loaded)) =>
        /\ last.tag # "thrown"
        /\ pending = NoUpdate
        /\ sortCriteria = <<>>
        /\ sortedClients = clients
        /\ (last.op = "load" /\ loaded # EmptyText) => storage = NoItem
        /\ Mounted => storage = JSONstringify(<<>>)

\* the page is mounted after a load that found a list of a criterion and null
C22_Witness ==
    /\ Mounted
    /\ loaded.t = "json"
    /\ loaded.doc.j = "array"
    /\ Len(loaded.doc.items) = 2
    /\ loaded.doc.items[1].j = "object"
    /\ Truthy(loaded.doc.items[1], "id")
    /\ Truthy(loaded.doc.items[1], "field")
    /\ Truthy(loaded.doc.items[1], "direction")
    /\ loaded.doc.items[2] = JNull

----------------------------------------------------------------------------
(* The evaluator on its own: any record collection, any criteria sequence  *)

SortFields == {"name", "createdAt"}

SortKeySeqs(len) ==
    {[i \in 1..len |-> SortCriterion(MakeId(i, f[i][1]), f[i][1], f[i][2])] :
        f \in [1..len -> SortFields \X SortDirection]}

SortInit ==
    /\ clients \in UNION {ClientSeqs(n) : n \in 0..MaxClients}
    /\ sortCriteria \in UNION {SortKeySeqs(n) : n \in 0..MaxSortKeys}
    /\ selectedField = ""
    /\ sortedClients = <<>>
    /\ storage = NoItem
    /\ pending = NoUpdate
    /\ left = NotLeft
    /\ loaded = NoItem
    /\ last = [op |-> "mount", tag |-> ""]

\* page.tsx lines 68-70: the first render computes the sorted view; the copy
\* of line 34/38 is what gets sorted, clients is not written.  The evaluator
\* has no throw statement and reads properties of records only, so its one
\* outcome is to return
useMemoSortedClients ==
    /\ last.op = "mount"
    /\ LET after == ArraysAfterSort(clients, sortCriteria)
       IN  /\ clients' = after.input
           /\ sortedClients' = after.returned
    /\ last' = [op |-> "sort", tag |-> "returned"]
    /\ UNCHANGED <<sortCriteria, selectedField, storage, pending, left, loaded>>

SortNext == useMemoSortedClients

SortSpec == SortInit /\ [][SortNext]_vars

\* the evaluator given criteria whose field may be one no record has: the
\* type of a criterion's field is erased at run time
LooseFields == SortFields \cup {"bogus"}

LooseKeySeqs(len) ==
    {[i \in 1..len |-> SortCriterion(MakeId(i, f[i][1]), f[i][1], f[i][2])] :
        f \in [1..len -> LooseFields \X SortDirection]}

LooseSortInit ==
    /\ clients \in UNION {ClientSeqs(n) : n \in 0..MaxClients}
    /\ sortCriteria \in UNION {LooseKeySeqs(n) : n \in 1..MaxSortKeys}
    /\ selectedField = ""
    /\ sortedClients = <<>>
    /\ storage = NoItem
    /\ pending = NoUpdate
    /\ left = NotLeft
    /\ loaded = NoItem
    /\ last = [op |-> "mount", tag |-> ""]

LooseSortSpec == LooseSortInit /\ [][SortNext]_vars

----------------------------------------------------------------------------
(* Properties of the evaluator                                             *)

Sorted == last.op # "mount"

\* what a record is ordered by on a field: a text by its place in the
\* collation, a date by its instant with an absent date taken as the instant 0
KeyOf(x, field) ==
    IF field = "createdAt" \/ field = "updatedAt"
    THEN IF x[field] = Absent THEN 0 ELSE getTime(x[field])
    ELSE LocaleRank(x[field])

\* x comes before y in the ascending order of the field
ValueBefore(x, y, field) == KeyOf(x, field) < KeyOf(y, field)

\* the criteria on which x and y differ
Differing(x, y) ==
    {k \in 1..Len(sortCriteria) :
        KeyOf(x, sortCriteria[k].field) # KeyOf(y, sortCriteria[k].field)}

FirstDiffering(x, y) ==
    CHOOSE k \in Differing(x, y) : \A m \in Differing(x, y) : k <= m

TiedPair(x, y) == Differing(x, y) = {}

\* where the record with this id stands in a sequence of records
IndexOf(seq, id) == CHOOSE i \in 1..Len(seq) : seq[i].id = id

\* C1: with a non-empty criteria sequence the output is in lexicographic
\* order: of two records, the earlier one either equals the later one on every
\* criterion or comes first, in the direction of the criterion, on the first
\* criterion on which the two differ
C1_Lexicographic ==
    (Sorted /\ Len(sortCriteria) > 0) =>
        \A i, j \in 1..Len(sortedClients) :
            i < j =>
                LET x == sortedClients[i]
                    y == sortedClients[j]
                IN  \/ TiedPair(x, y)
                    \/ LET c == sortCriteria[FirstDiffering(x, y)]
                       IN  IF c.direction = "asc"
                           THEN ValueBefore(x, y, c.field)
                           ELSE ValueBefore(y, x, c.field)

\* two criteria, the second descending, and a pair of records that the first
\* criterion ties and the second one has swapped
C1_Witness ==
    /\ Sorted
    /\ Len(sortCriteria) = 2
    /\ sortCriteria[1].field # sortCriteria[2].field
    /\ sortCriteria[2].direction = "desc"
    /\ \E i, j \in 1..Len(sortedClients) :
          /\ i < j
          /\ sortedClients[i].id > sortedClients[j].id
          /\ ~TiedPair(sortedClients[i], sortedClients[j])
          /\ FirstDiffering(sortedClients[i], sortedClients[j]) = 2

\* C2: two records that are equal under every criterion stand in the output
\* in the order they had in the input
C2_Stable ==
    Sorted =>
        \A i, j \in 1..Len(sortedClients) :
            (i < j /\ TiedPair(sortedClients[i], sortedClients[j])) =>
                IndexOf(clients, sortedClients[i].id) < IndexOf(clients, sortedClients[j].id)

\* a sort that moved records and left two tied ones, now adjacent, in order
C2_Witness ==
    /\ Sorted
    /\ Len(sortCriteria) > 0
    /\ sortedClients # clients
    /\ \E i \in 1..Len(sortedClients) - 1 :
          /\ TiedPair(sortedClients[i], sortedClients[i + 1])
          /\ IndexOf(clients, sortedClients[i].id) + 1
                < IndexOf(clients, sortedClients[i + 1].id)

\* C3: the output is a permutation of the input: the same length, and every
\* record as often in the output as in the input
C3_Permutation ==
    Sorted =>
        /\ Len(sortedClients) = Len(clients)
        /\ \A r \in {clients[i] : i \in 1..Len(clients)}
                  \cup {sortedClients[i] : i \in 1..Len(sortedClients)} :
              Cardinality({i \in 1..Len(sortedClients) : sortedClients[i] = r})
                = Cardinality({i \in 1..Len(clients) : clients[i] = r})

\* a sort by a non-empty criteria sequence that moved records, two of them tied
C3_Witness ==
    /\ Sorted
    /\ Len(sortCriteria) > 0
    /\ Len(clients) >= 3
    /\ sortedClients # clients
    /\ \E i, j \in 1..Len(clients) : i # j /\ TiedPair(clients[i], clients[j])

\* C4: with no criteria the output holds the records of the input in their
\* original order, and the input is as it was
C4_EmptyCriteria ==
    (Sorted /\ Len(sortCriteria) = 0) =>
        /\ Len(sortedClients) = Len(clients)
        /\ \A i \in 1..Len(clients) : sortedClients[i] = clients[i]

\* no criteria, and records that any sort by name would have moved
C4_Witness ==
    /\ Sorted
    /\ Len(sortCriteria) = 0
    /\ Len(sortedClients) >= 2
    /\ \E i \in 1..Len(clients) - 1 :
          LocaleRank(clients[i + 1].name) < LocaleRank(clients[i].name)

Reverse(seq) == [i \in 1..Len(seq) |-> seq[Len(seq) + 1 - i]]

\* no two records of the input have the same value of the field
AllDiffer(field) ==
    \A i, j \in 1..Len(clients) :
        i # j => KeyOf(clients[i], field) # KeyOf(clients[j], field)

\* the single criterion with its direction inverted
Inverted(c) ==
    <<SortCriterion(c.id, c.field, IF c.direction = "asc" THEN "desc" ELSE "asc")>>

\* C14: with a single criterion on a field, when no two records have the same
\* value of the field the output under one direction is the reverse of the
\* output under the other; records with the same value keep their input order
\* under both directions
C14_DirectionInversion ==
    (Sorted /\ Len(sortCriteria) = 1) =>
        LET field == sortCriteria[1].field
            other == applyMultiSort(clients, Inverted(sortCriteria[1]))
        IN  /\ AllDiffer(field) => other = Reverse(sortedClients)
            /\ \A i, j \in 1..Len(clients) :
                  (i < j /\ KeyOf(clients[i], field) = KeyOf(clients[j], field)) =>
                      /\ IndexOf(sortedClients, clients[i].id)
                            < IndexOf(sortedClients, clients[j].id)
                      /\ IndexOf(other, clients[i].id) < IndexOf(other, clients[j].id)

\* three records with three different dates, one of them absent, sorted by
\* the date in descending order into an order that is not the input's
C14_Witness ==
    /\ Sorted
    /\ Len(sortCriteria) = 1
    /\ sortCriteria[1].field = "createdAt"
    /\ sortCriteria[1].direction = "desc"
    /\ Len(clients) = MaxClients
    /\ AllDiffer("createdAt")
    /\ sortedClients # clients
    /\ sortedClients # Reverse(clients)

\* C15: under an ascending criterion on a date, a record whose date is absent
\* stands before every record whose date is present, whatever the instants of
\* the present dates are
C15_AbsentDateFirst ==
    (Sorted /\ Len(sortCriteria) > 0 /\ sortCriteria[1].field = "createdAt"
       /\ sortCriteria[1].direction = "asc") =>
        \A i, j \in 1..Len(sortedClients) :
            (sortedClients[i].createdAt = Absent /\ sortedClients[j].createdAt # Absent)
                => i < j

\* C16: when a criterion names a field that has no descriptor the evaluator
\* fails with the error UnknownField instead of returning a sequence,
\* whatever the records are
C16_UnknownFieldFails ==
    (Sorted /\ \E k \in 1..Len(sortCriteria) : sortCriteria[k].field \notin ClientFieldId)
        => last.tag = "UnknownField"

\* C17: the evaluator has no side effect: after the call the record
\* collection holds the records it held, in the order it held them, and the
\* criteria sequence is the one given, for empty and non-empty criteria
C17_NoSideEffect ==
    [][last'.op = "sort" => (clients' = clients /\ sortCriteria' = sortCriteria)]_vars

\* a call with criteria that returned the records in another order
C17_Witness ==
    /\ last.op = "sort"
    /\ Len(sortCriteria) > 0
    /\ Len(clients) = MaxClients
    /\ sortedClients # clients

====
